---- MODULE Spec2Model ----
(***************************************************************************)
(* A model of converter.py (rasmuswiegman/converter): the four unit        *)
(* tables, the domain-specific converters, detect_unit_type, convert_auto, *)
(* show_all_conversions and main.                                          *)
(*                                                                         *)
(* Python floats are IEEE-754 binary64.  They are modelled exactly: a      *)
(* finite float is a sign, a 53-bit significand and a binary exponent, and *)
(* every multiplication, division, parse and format rounds as CPython      *)
(* does (round to nearest, ties to even).  TLC's integers are 32 bits      *)
(* wide, so significands are kept as naturals in limbs of 15 bits.         *)
(*                                                                         *)
(* The arithmetic and the string operations are functions, f[x], rather    *)
(* than operators, F(x): TLC evaluates the argument of a function once,    *)
(* and the argument of an operator each time the body names it.  With(v,   *)
(* Body) does the same for a value local to a definition.                  *)
(***************************************************************************)
EXTENDS Integers, Sequences, FiniteSets, TLC

\* Body(v), with v evaluated once.
With(v, Body(_)) == CHOOSE r \in {Body(x) : x \in {v}} : TRUE

(***************************************************************************)
(* Naturals of any size: little-endian sequences of limbs below Base, no   *)
(* leading zero limb; zero is the empty sequence.  TLC evaluates on the    *)
(* Java stack, so the functions are written with quantifiers over the limb *)
(* positions rather than recursion wherever a closed form exists.          *)
(***************************************************************************)
Base == 2 ^ 15

LimbBits == CHOOSE n \in 1..30 : 2 ^ n = Base

Big == Seq(Nat)

MaxOf[S \in SUBSET Int] == CHOOSE m \in S : \A x \in S : x <= m

BNorm[a \in Big] == SubSeq(a, 1, MaxOf[{0} \cup {i \in 1..Len(a) : a[i] # 0}])

BLimb(a, i) == IF i >= 1 /\ i <= Len(a) THEN a[i] ELSE 0

\* For n < Base * Base.
BFromInt[n \in Nat] == BNorm[<<n % Base, n \div Base>>]

\* -1, 0 or 1 as a < b, a = b, a > b.
BCmp[a \in Big, b \in Big] ==
    IF Len(a) # Len(b) THEN (IF Len(a) < Len(b) THEN -1 ELSE 1)
    ELSE With({i \in 1..Len(a) : a[i] # b[i]},
              LAMBDA diff : IF diff = {} THEN 0
                            ELSE IF a[MaxOf[diff]] < b[MaxOf[diff]] THEN -1 ELSE 1)

\* The carry into limb i of a + b: some lower limb overflows and every limb
\* between passes the carry on.
AddCarry(a, b, i) ==
    IF \E j \in 1..(i - 1) :
          /\ BLimb(a, j) + BLimb(b, j) >= Base
          /\ \A k \in (j + 1)..(i - 1) : BLimb(a, k) + BLimb(b, k) = Base - 1
    THEN 1 ELSE 0

BAdd[a \in Big, b \in Big] ==
    LET n == IF Len(a) >= Len(b) THEN Len(a) ELSE Len(b)
    IN  BNorm[[i \in 1..(n + 1) |->
                 (BLimb(a, i) + BLimb(b, i) + AddCarry(a, b, i)) % Base]]

BInc[a \in Big] == BAdd[a, <<1>>]

\* The borrow from limb i of a - b.
SubBorrow(a, b, i) ==
    IF \E j \in 1..(i - 1) :
          /\ a[j] < BLimb(b, j)
          /\ \A k \in (j + 1)..(i - 1) : a[k] = BLimb(b, k)
    THEN 1 ELSE 0

\* a - b for a >= b.
BSub[a \in Big, b \in Big] ==
    BNorm[[i \in 1..Len(a) |->
             (a[i] - BLimb(b, i) - SubBorrow(a, b, i) + Base) % Base]]

BShlLimbs[a \in Big, n \in Nat] ==
    IF a = <<>> THEN <<>> ELSE [i \in 1..n |-> 0] \o a

BDropLimbs[a \in Big, n \in Nat] ==
    IF n >= Len(a) THEN <<>> ELSE SubSeq(a, n + 1, Len(a))

\* a * k for 0 <= k < Base: the low halves of the limb products plus their
\* high halves one limb up.
BMulSmall[a \in Big, k \in Nat] ==
    BAdd[[i \in 1..Len(a) |-> (a[i] * k) % Base],
         [i \in 1..(Len(a) + 1) |-> IF i = 1 THEN 0 ELSE (a[i - 1] * k) \div Base]]

\* Column k of the schoolbook product: the sum of the low halves of the
\* limb products a[i] * b[k + 1 - i], and the sum of their high halves.
RECURSIVE ColLo(_, _, _, _)
ColLo(a, b, k, i) ==
    IF i = 0 THEN 0
    ELSE ((a[i] * BLimb(b, k + 1 - i)) % Base) + ColLo(a, b, k, i - 1)

RECURSIVE ColHi(_, _, _, _)
ColHi(a, b, k, i) ==
    IF i = 0 THEN 0
    ELSE ((a[i] * BLimb(b, k + 1 - i)) \div Base) + ColHi(a, b, k, i - 1)

\* a * b
BMul[a \in Big, b \in Big] ==
    With([k \in 1..(Len(a) + Len(b)) |->
            ColLo(a, b, k, Len(a)) + ColHi(a, b, k - 1, Len(a))],
         LAMBDA col :
            BAdd[[k \in 1..Len(col) |-> col[k] % Base],
                 [k \in 1..(Len(col) + 1) |->
                    IF k = 1 THEN 0 ELSE col[k - 1] \div Base]])

\* a * 2^n and floor(a / 2^n).
BShl[a \in Big, n \in Nat] ==
    BShlLimbs[BMulSmall[a, 2 ^ (n % LimbBits)], n \div LimbBits]

BShr[a \in Big, n \in Nat] ==
    With(BDropLimbs[a, n \div LimbBits],
         LAMBDA x :
            LET s == n % LimbBits
            IN  BNorm[[i \in 1..Len(x) |->
                         (x[i] \div (2 ^ s))
                         + (BLimb(x, i + 1) % (2 ^ s)) * (2 ^ (LimbBits - s))]])

\* The remainder of the limbs i.. of a by k, 0 < k < Base.
RECURSIVE RemFrom(_, _, _)
RemFrom(a, k, i) ==
    IF i > Len(a) THEN 0 ELSE (RemFrom(a, k, i + 1) * Base + a[i]) % k

\* Quotient and remainder of a by k, 0 < k < Base.
BDivSmall[a \in Big, k \in Nat] ==
    [q |-> BNorm[[i \in 1..Len(a) |-> (RemFrom(a, k, i + 1) * Base + a[i]) \div k]],
     r |-> RemFrom(a, k, 1)]

IntBitLen[n \in Nat] ==
    IF n = 0 THEN 0 ELSE MaxOf[{i \in 1..LimbBits : n >= 2 ^ (i - 1)}]

BBitLen[a \in Big] ==
    IF a = <<>> THEN 0 ELSE (Len(a) - 1) * LimbBits + IntBitLen[a[Len(a)]]

\* Bit i of a, bit 0 the lowest.
BBit(a, i) == (BLimb(a, i \div LimbBits + 1) \div (2 ^ (i % LimbBits))) % 2

\* Whether any of the n lowest bits of a is set.
BLowBits(a, n) ==
    \/ \E i \in 1..(n \div LimbBits) : BLimb(a, i) # 0
    \/ BLimb(a, n \div LimbBits + 1) % (2 ^ (n % LimbBits)) # 0

BIsEven(a) == a = <<>> \/ a[1] % 2 = 0

(***************************************************************************)
(* Python float: a finite binary64 value (-1)^sign * man * 2^exp with      *)
(* 2^52 <= man < 2^53, or zero (man empty, the sign kept: -0.0 prints      *)
(* as "-0").  The exponent is unbounded here: no value of the bounded      *)
(* inputs comes near the overflow or the subnormal range.                  *)
(***************************************************************************)
MantBits == 53

Float == [sign : {0, 1}, man : Big, exp : Int]

FZero(sign) == [sign |-> sign, man |-> <<>>, exp |-> 0]

\* n / 2^drop rounded to the nearest natural, ties to even.
BShrRound[n \in Big, drop \in Nat] ==
    IF drop = 0 THEN n
    ELSE With(BShr[n, drop],
              LAMBDA q :
                 IF BBit(n, drop - 1) = 1 /\ (BLowBits(n, drop - 1) \/ ~BIsEven(q))
                 THEN BInc[q] ELSE q)

\* The float nearest to n * 2^e, ties to even.
RoundBig[sign \in {0, 1}, n \in Big, e \in Int] ==
    LET len == BBitLen[n]
    IN  IF len = 0 THEN FZero(sign)
        ELSE IF len <= MantBits
        THEN [sign |-> sign, man |-> BShl[n, MantBits - len],
              exp |-> e - (MantBits - len)]
        ELSE With(BShrRound[n, len - MantBits],
                  LAMBDA r :
                     IF BBitLen[r] > MantBits
                     THEN [sign |-> sign, man |-> BShr[r, 1],
                           exp |-> e + len - MantBits + 1]
                     ELSE [sign |-> sign, man |-> r, exp |-> e + len - MantBits])

\* One quotient limb of long division (Knuth's algorithm D): rem < d * Base,
\* and d has DivLimbs limbs with its top bit set, so the estimate from the
\* leading limbs is the digit or exceeds it by at most 2.
DivLimbs == MantBits \div LimbBits + 1

DivDigit[rem \in Big, d \in Big] ==
    LET top  == BLimb(rem, DivLimbs + 1) * Base + BLimb(rem, DivLimbs)
        est  == top \div d[DivLimbs]
        qhat == IF est >= Base THEN Base - 1 ELSE est
        q    == IF BCmp[BMulSmall[d, qhat], rem] <= 0 THEN qhat
                ELSE IF BCmp[BMulSmall[d, qhat - 1], rem] <= 0 THEN qhat - 1
                ELSE qhat - 2
    IN  With(q, LAMBDA digit : [q |-> digit, r |-> BSub[rem, BMulSmall[d, digit]]])

\* The next n quotient limbs of rem / d (rem < d), lowest limb first, and
\* the remainder left.
LongDiv[rem \in Big, d \in Big, n \in Nat] ==
    IF n = 0 THEN [q |-> <<>>, r |-> rem]
    ELSE With(DivDigit[BShlLimbs[rem, 1], d],
              LAMBDA s :
                 IF s.r = <<>>
                 THEN [q |-> [i \in 1..(n - 1) |-> 0] \o <<s.q>>, r |-> <<>>]
                 ELSE With(LongDiv[s.r, d, n - 1],
                           LAMBDA rest : [q |-> rest.q \o <<s.q>>, r |-> rest.r]))

\* The float nearest to n / d, for 0 < n, d < 2^53: the quotient to
\* DivLimbs limbs below the point, the remainder folded into a sticky bit.
RatToFloat[sign \in {0, 1}, n \in Big, d \in Big] ==
    LET w  == DivLimbs * LimbBits
        ln == BBitLen[n]
        ld == BBitLen[d]
        Quotient(nn, dd) ==
            LET ge == BCmp[nn, dd] >= 0
            IN  With(LongDiv[IF ge THEN BSub[nn, dd] ELSE nn, dd, DivLimbs],
                     LAMBDA qr :
                        With(BNorm[qr.q \o <<IF ge THEN 1 ELSE 0>>],
                             LAMBDA q :
                                IF qr.r = <<>>
                                THEN RoundBig[sign, BMulSmall[q, 2], ln - ld - (w + 1)]
                                ELSE RoundBig[sign, BInc[BMulSmall[q, 2]],
                                              ln - ld - (w + 1)]))
    IN  With(BShl[n, w - ln],
             LAMBDA nn : With(BShl[d, w - ld], LAMBDA dd : Quotient(nn, dd)))

SignXor(a, b) == IF a = b THEN 0 ELSE 1

\* a * b
FMul[a \in Float, b \in Float] ==
    IF a.man = <<>> \/ b.man = <<>> THEN FZero(SignXor(a.sign, b.sign))
    ELSE RoundBig[SignXor(a.sign, b.sign), BMul[a.man, b.man], a.exp + b.exp]

\* a / b for b # 0
FDiv[a \in Float, b \in Float] ==
    IF a.man = <<>> \/ b.man = <<>> THEN FZero(SignXor(a.sign, b.sign))
    ELSE [RatToFloat[SignXor(a.sign, b.sign), a.man, b.man]
            EXCEPT !.exp = @ + a.exp - b.exp]

\* a == b (0.0 == -0.0)
FEq[a \in Float, b \in Float] == IF a.man = <<>> THEN b.man = <<>> ELSE a = b

\* |a| >= |b| for a, b # 0
FMagGe(a, b) ==
    IF a.exp # b.exp THEN a.exp > b.exp ELSE BCmp[a.man, b.man] >= 0

\* a >= b
FGe[a \in Float, b \in Float] ==
    IF a.man = <<>> THEN b.man = <<>> \/ b.sign = 1
    ELSE IF b.man = <<>> THEN a.sign = 0
    ELSE IF a.sign # b.sign THEN a.sign = 0
    ELSE IF a.sign = 0 THEN FMagGe(a, b)
    ELSE FMagGe(b, a)

(***************************************************************************)
(* Strings.  TLC gives Len, \o and SubSeq on strings; a character is a     *)
(* string of length 1.                                                     *)
(***************************************************************************)
Char(s, i) == SubSeq(s, i, i)

UpperLetters == "ABCDEFGHIJKLMNOPQRSTUVWXYZ"

LowerLetters == "abcdefghijklmnopqrstuvwxyz"

Digits == "0123456789"

LowerChar[c \in STRING] ==
    IF \E i \in 1..Len(UpperLetters) : Char(UpperLetters, i) = c
    THEN Char(LowerLetters, CHOOSE i \in 1..Len(UpperLetters) : Char(UpperLetters, i) = c)
    ELSE c

\* str.lower()
Lower[s \in STRING] ==
    IF Len(s) = 0 THEN s ELSE LowerChar[Char(s, 1)] \o Lower[SubSeq(s, 2, Len(s))]

\* str.endswith(c) for a character c
EndsWith(s, c) == Len(s) >= 1 /\ Char(s, Len(s)) = c

\* s[:-1]
DropLast(s) == SubSeq(s, 1, Len(s) - 1)

\* str.rstrip(c) for a character c
RStrip[s \in STRING, c \in STRING] ==
    IF EndsWith(s, c) THEN RStrip[DropLast(s), c] ELSE s

IsDigit(c) == \E d \in 1..Len(Digits) : Char(Digits, d) = c

DigitVal(c) == (CHOOSE d \in 1..Len(Digits) : Char(Digits, d) = c) - 1

DigitChar(d) == Char(Digits, d + 1)

AllDigits[s \in STRING] ==
    Len(s) = 0 \/ (IsDigit(Char(s, 1)) /\ AllDigits[SubSeq(s, 2, Len(s))])

\* The natural a string of digits denotes.
DigitsToBig[s \in STRING] ==
    IF Len(s) = 0 THEN <<>>
    ELSE BAdd[BMulSmall[DigitsToBig[DropLast(s)], 10],
              BFromInt[DigitVal(Char(s, Len(s)))]]

BPow10[k \in Nat] == BMul[BFromInt[10 ^ (k \div 2)], BFromInt[10 ^ (k - k \div 2)]]

\* Position of the first "." of s at or after i, or 0.
DotAt[s \in STRING, i \in Nat] ==
    IF i > Len(s) THEN 0 ELSE IF Char(s, i) = "." THEN i ELSE DotAt[s, i + 1]

(***************************************************************************)
(* float(s), and a float literal of the source: the nearest float to the   *)
(* decimal.  The grammar covered is [+-] digits [. digits] with at least   *)
(* one digit; float() takes more (exponents, "inf", "nan", blanks,         *)
(* underscores) and the inputs drawn here stay clear of those.  Anything   *)
(* else raises ValueError: ok is FALSE.                                    *)
(***************************************************************************)
ParseFloat[s \in STRING] ==
    LET signed == Len(s) >= 1 /\ Char(s, 1) \in {"-", "+"}
        sign   == IF Len(s) >= 1 /\ Char(s, 1) = "-" THEN 1 ELSE 0
        body   == IF signed THEN SubSeq(s, 2, Len(s)) ELSE s
        dot    == DotAt[body, 1]
        ip     == IF dot = 0 THEN body ELSE SubSeq(body, 1, dot - 1)
        fp     == IF dot = 0 THEN "" ELSE SubSeq(body, dot + 1, Len(body))
    IN  IF Len(ip) + Len(fp) = 0 \/ ~AllDigits[ip] \/ ~AllDigits[fp]
        THEN [ok |-> FALSE, val |-> FZero(0)]
        ELSE With(DigitsToBig[ip \o fp],
                  LAMBDA n :
                     IF n = <<>> THEN [ok |-> TRUE, val |-> FZero(sign)]
                     ELSE [ok |-> TRUE, val |-> RatToFloat[sign, n, BPow10[Len(fp)]]])

Lit(s) == ParseFloat[s].val

(***************************************************************************)
(* format(x, ".kf") and format(x, ",.kf"): the exact binary value rounded  *)
(* to k decimals, ties to even.                                            *)
(***************************************************************************)
\* round(|x| * 10^k) as a natural
ScaledInt[x \in Float, k \in Nat] ==
    IF x.exp >= 0 THEN BShl[BMul[x.man, BPow10[k]], x.exp]
    ELSE BShrRound[BMul[x.man, BPow10[k]], -x.exp]

\* The four decimal digits of c < 10^4.
Chunk4(c) ==
    DigitChar(c \div 1000) \o DigitChar((c \div 100) % 10)
    \o DigitChar((c \div 10) % 10) \o DigitChar(c % 10)

LStrip[s \in STRING, c \in STRING] ==
    IF Len(s) >= 1 /\ Char(s, 1) = c THEN LStrip[SubSeq(s, 2, Len(s)), c] ELSE s

\* The decimal digits of n, none for zero; four digits to a step.
BigToDigits[n \in Big] ==
    IF n = <<>> THEN ""
    ELSE With(BDivSmall[n, 10 ^ 4],
              LAMBDA d :
                 IF d.q = <<>> THEN LStrip[Chunk4(d.r), "0"]
                 ELSE BigToDigits[d.q] \o Chunk4(d.r))

PadLeft[s \in STRING, n \in Nat] == IF Len(s) >= n THEN s ELSE PadLeft["0" \o s, n]

\* The "," option: a comma before every group of three digits from the right.
Grouped[s \in STRING] ==
    IF Len(s) <= 3 THEN s
    ELSE Grouped[SubSeq(s, 1, Len(s) - 3)] \o "," \o SubSeq(s, Len(s) - 2, Len(s))

FormatFixed[x \in Float, k \in Nat, commas \in BOOLEAN] ==
    With(PadLeft[BigToDigits[ScaledInt[x, k]], k + 1],
         LAMBDA ds :
            (IF x.sign = 1 THEN "-" ELSE "")
            \o (IF commas THEN Grouped[SubSeq(ds, 1, Len(ds) - k)]
                ELSE SubSeq(ds, 1, Len(ds) - k))
            \o (IF k = 0 THEN "" ELSE "." \o SubSeq(ds, Len(ds) - k + 1, Len(ds))))

(***************************************************************************)
(* The unit tables of class Converter: alias -> factor to the base unit,   *)
(* written with the literals of the source, each the float it denotes.     *)
(***************************************************************************)
\* Time conversion factors (to seconds)
TIME_UNITS ==
    LET literal ==
          [seconds |-> "1", sec |-> "1", s |-> "1",
           minutes |-> "60", min |-> "60", m |-> "60",
           hours |-> "3600", hr |-> "3600", h |-> "3600",
           days |-> "86400", d |-> "86400"]
    IN  [alias \in DOMAIN literal |-> Lit(literal[alias])]

\* Weight conversion factors (to grams)
WEIGHT_UNITS ==
    LET literal ==
          [grams |-> "1", gram |-> "1", g |-> "1",
           kilograms |-> "1000", kilogram |-> "1000", kg |-> "1000",
           pounds |-> "453.592", pound |-> "453.592", lb |-> "453.592", lbs |-> "453.592",
           ounces |-> "28.3495", ounce |-> "28.3495", oz |-> "28.3495"]
    IN  [alias \in DOMAIN literal |-> Lit(literal[alias])]

\* Length conversion factors (to meters)
LENGTH_UNITS ==
    LET literal ==
          [millimeters |-> "0.001", millimeter |-> "0.001", mm |-> "0.001",
           centimeters |-> "0.01", centimeter |-> "0.01", cm |-> "0.01",
           meters |-> "1", meter |-> "1", m |-> "1",
           kilometers |-> "1000", kilometer |-> "1000", km |-> "1000",
           inches |-> "0.0254", inch |-> "0.0254", in |-> "0.0254",
           feet |-> "0.3048", foot |-> "0.3048", ft |-> "0.3048",
           yards |-> "0.9144", yard |-> "0.9144", yd |-> "0.9144",
           miles |-> "1609.34", mile |-> "1609.34", mi |-> "1609.34"]
    IN  [alias \in DOMAIN literal |-> Lit(literal[alias])]

\* Baking/Volume conversion factors (to milliliters)
BAKING_UNITS ==
    LET literal ==
          [milliliters |-> "1", milliliter |-> "1", ml |-> "1",
           liters |-> "1000", liter |-> "1000", l |-> "1000",
           cups |-> "236.588", cup |-> "236.588", c |-> "236.588",
           tablespoons |-> "14.7868", tablespoon |-> "14.7868", tbsp |-> "14.7868",
           teaspoons |-> "4.92892", teaspoon |-> "4.92892", tsp |-> "4.92892",
           fluid_ounces |-> "29.5735", fluid_ounce |-> "29.5735", fl_oz |-> "29.5735",
           pints |-> "473.176", pint |-> "473.176", pt |-> "473.176",
           quarts |-> "946.353", quart |-> "946.353", qt |-> "946.353",
           gallons |-> "3785.41", gallon |-> "3785.41", gal |-> "3785.41"]
    IN  [alias \in DOMAIN literal |-> Lit(literal[alias])]

(***************************************************************************)
(* What a call does: it returns a value or raises ValueError with a        *)
(* message.  None is Python's None.                                        *)
(***************************************************************************)
None == "<None>"

Return(v) == [kind |-> "return", val |-> v, msg |-> ""]

Raise(m) == [kind |-> "raise", val |-> None, msg |-> m]

\* ConvertIn with to_unit looked up as written, not lower-cased.
ConvertIn_ToUnitAsWritten(units, name, value, from_unit, to_unit) ==
    LET from == Lower[from_unit]
    IN  IF from \notin DOMAIN units
        THEN Raise("Unknown " \o name \o " unit: " \o from)
        ELSE IF to_unit \notin DOMAIN units
        THEN Raise("Unknown " \o name \o " unit: " \o to_unit)
        ELSE Return(FDiv[FMul[value, units[from]], units[to_unit]])

\* ConvertIn that returns the value in the base unit: the division by the
\* target's factor left out.
ConvertIn_BaseUnitReturned(units, name, value, from_unit, to_unit) ==
    LET from == Lower[from_unit]
        to   == Lower[to_unit]
    IN  IF from \notin DOMAIN units
        THEN Raise("Unknown " \o name \o " unit: " \o from)
        ELSE IF to \notin DOMAIN units
        THEN Raise("Unknown " \o name \o " unit: " \o to)
        ELSE Return(FMul[value, units[from]])

\* The body shared by convert_time, convert_weight, convert_length and
\* convert_baking: both units lower-cased and looked up in the table `units`,
\* the value taken to the base unit and from there to the target unit.
ConvertIn(units, name, value, from_unit, to_unit) ==
    LET from == Lower[from_unit]
        to   == Lower[to_unit]
    IN  IF from \notin DOMAIN units
        THEN Raise("Unknown " \o name \o " unit: " \o from)
        ELSE IF to \notin DOMAIN units
        THEN Raise("Unknown " \o name \o " unit: " \o to)
        ELSE Return(FDiv[FMul[value, units[from]], units[to]])

convert_time(cls, value, from_unit, to_unit) ==
    ConvertIn(cls.TIME_UNITS, "time", value, from_unit, to_unit)

convert_weight(cls, value, from_unit, to_unit) ==
    ConvertIn(cls.WEIGHT_UNITS, "weight", value, from_unit, to_unit)

convert_length(cls, value, from_unit, to_unit) ==
    ConvertIn(cls.LENGTH_UNITS, "length", value, from_unit, to_unit)

convert_baking(cls, value, from_unit, to_unit) ==
    ConvertIn(cls.BAKING_UNITS, "baking", value, from_unit, to_unit)

\* detect_unit_type without unit.lower().
detect_unit_type_AsWritten(cls, unit) ==
    IF unit \in DOMAIN cls.TIME_UNITS THEN "time"
    ELSE IF unit \in DOMAIN cls.WEIGHT_UNITS THEN "weight"
    ELSE IF unit \in DOMAIN cls.LENGTH_UNITS THEN "length"
    ELSE IF unit \in DOMAIN cls.BAKING_UNITS THEN "baking"
    ELSE None

\* detect_unit_type with the length table tried before the time table.
detect_unit_type_LengthFirst(cls, unit) ==
    LET u == Lower[unit]
    IN  IF u \in DOMAIN cls.LENGTH_UNITS THEN "length"
        ELSE IF u \in DOMAIN cls.TIME_UNITS THEN "time"
        ELSE IF u \in DOMAIN cls.WEIGHT_UNITS THEN "weight"
        ELSE IF u \in DOMAIN cls.BAKING_UNITS THEN "baking"
        ELSE None

\* The first table, in the order time, weight, length, baking, that holds
\* the lower-cased unit; None if none does.
detect_unit_type(cls, unit) ==
    LET u == Lower[unit]
    IN  IF u \in DOMAIN cls.TIME_UNITS THEN "time"
        ELSE IF u \in DOMAIN cls.WEIGHT_UNITS THEN "weight"
        ELSE IF u \in DOMAIN cls.LENGTH_UNITS THEN "length"
        ELSE IF u \in DOMAIN cls.BAKING_UNITS THEN "baking"
        ELSE None

convert_auto(cls, value, from_unit, to_unit) ==
    LET from_type == detect_unit_type(cls, from_unit)
        to_type   == detect_unit_type(cls, to_unit)
    IN  IF from_type = None THEN Raise("Unknown unit: " \o from_unit)
        ELSE IF to_type = None THEN Raise("Unknown unit: " \o to_unit)
        ELSE IF from_type # to_type
        THEN Raise("Cannot convert between " \o from_type \o " and "
                   \o to_type \o " units")
        ELSE IF from_type = "time" THEN convert_time(cls, value, from_unit, to_unit)
        ELSE IF from_type = "weight" THEN convert_weight(cls, value, from_unit, to_unit)
        ELSE IF from_type = "length" THEN convert_length(cls, value, from_unit, to_unit)
        ELSE convert_baking(cls, value, from_unit, to_unit)

(***************************************************************************)
(* show_all_conversions                                                    *)
(***************************************************************************)
\* unit_maps: the conversion types taken, each with the name of its table.
unit_maps ==
    [time |-> "TIME_UNITS", t |-> "TIME_UNITS",
     weight |-> "WEIGHT_UNITS", w |-> "WEIGHT_UNITS",
     length |-> "LENGTH_UNITS", l |-> "LENGTH_UNITS",
     baking |-> "BAKING_UNITS", b |-> "BAKING_UNITS"]

TimePrimary == <<"seconds", "minutes", "hours", "days">>

WeightPrimary == <<"grams", "kilograms", "pounds", "ounces">>

LengthPrimary ==
    <<"millimeters", "centimeters", "meters", "kilometers", "inches", "feet",
      "yards", "miles">>

\* The baking list with a name the baking table does not hold.
BakingPrimary_Litres ==
    <<"milliliters", "litres", "cups", "tablespoons", "teaspoons",
      "fluid_ounces", "pints", "quarts", "gallons">>

BakingPrimary ==
    <<"milliliters", "liters", "cups", "tablespoons", "teaspoons",
      "fluid_ounces", "pints", "quarts", "gallons">>

primary_units ==
    [time |-> TimePrimary, t |-> TimePrimary,
     weight |-> WeightPrimary, w |-> WeightPrimary,
     length |-> LengthPrimary, l |-> LengthPrimary,
     baking |-> BakingPrimary, b |-> BakingPrimary]

\* The test that skips a target unit ("converting to same unit type").
SkipTarget(from_unit, to_unit) ==
    \/ Lower[to_unit] = from_unit
    \/ (from_unit = "s" /\ to_unit = "seconds")
    \/ (from_unit = "seconds" /\ to_unit = "seconds")
    \/ (from_unit = "ml" /\ to_unit = "milliliters")
    \/ (from_unit = "milliliters" /\ to_unit = "milliliters")
    \/ (from_unit = "g" /\ to_unit = "grams")
    \/ (from_unit = "grams" /\ to_unit = "grams")
    \/ (from_unit = "m" /\ to_unit = "meters")
    \/ (from_unit = "meters" /\ to_unit = "meters")

\* The conversion the loop picks by conversion type.
ConvertByType(cls, conversion_type, value, from_unit, to_unit) ==
    IF conversion_type \in {"time", "t"}
    THEN convert_time(cls, value, from_unit, to_unit)
    ELSE IF conversion_type \in {"weight", "w"}
    THEN convert_weight(cls, value, from_unit, to_unit)
    ELSE IF conversion_type \in {"length", "l"}
    THEN convert_length(cls, value, from_unit, to_unit)
    ELSE convert_baking(cls, value, from_unit, to_unit)

\* The numbers the results are compared with.
Million == Lit("1000000")

Thousand == Lit("1000")

One == Lit("1")

Thousandth == Lit("0.001")

OnePointZero == Lit("1.0")

\* The branch of "Format the result nicely" a result takes.
FormatRule(result) ==
    IF FGe[result, Million] THEN "millions"
    ELSE IF FGe[result, Thousand] THEN "thousands"
    ELSE IF FGe[result, One] THEN "units"
    ELSE IF FGe[result, Thousandth] THEN "thousandths"
    ELSE "smallest"

StripZeros(s) == RStrip[RStrip[s, "0"], "."]

FormatResult(result) ==
    LET rule == FormatRule(result)
    IN  IF rule = "millions" THEN FormatFixed[result, 0, TRUE]
        ELSE IF rule = "thousands" THEN StripZeros(FormatFixed[result, 1, TRUE])
        ELSE IF rule = "units" THEN StripZeros(FormatFixed[result, 3, FALSE])
        ELSE IF rule = "thousandths" THEN StripZeros(FormatFixed[result, 5, FALSE])
        ELSE StripZeros(FormatFixed[result, 6, FALSE])

\* DisplayUnit without the list of names that keep their "s".
DisplayUnit_NoExceptions(result, to_unit) ==
    IF FEq[result, OnePointZero]
    THEN IF EndsWith(to_unit, "s") THEN DropLast(to_unit)
         ELSE IF to_unit = "feet" THEN "foot"
         ELSE to_unit
    ELSE to_unit

\* "Handle singular/plural forms".
DisplayUnit(result, to_unit) ==
    IF FEq[result, OnePointZero]
    THEN IF EndsWith(to_unit, "s") /\ to_unit \notin {"cups", "inches", "ounces"}
         THEN DropLast(to_unit)
         ELSE IF to_unit = "feet" THEN "foot"
         ELSE to_unit
    ELSE to_unit

\* One pass of the loop over the target units: the unit is skipped, or its
\* conversion raises and the except clause swallows it, or a row is printed.
LoopPass(cls, conversion_type, value, from_unit, to_unit) ==
    IF SkipTarget(from_unit, to_unit)
    THEN [step |-> "skip", to_unit |-> to_unit]
    ELSE With(ConvertByType(cls, conversion_type, value, from_unit, to_unit),
              LAMBDA c :
                 IF c.kind = "raise"
                 THEN [step |-> "except", to_unit |-> to_unit]
                 ELSE [step |-> "row", to_unit |-> to_unit, result |-> c.val,
                       rule |-> FormatRule(c.val),
                       formatted_result |-> FormatResult(c.val),
                       display_unit |-> DisplayUnit(c.val, to_unit)])

RowLine(p) == [kind |-> "row", text |-> "  " \o p.formatted_result \o " " \o p.display_unit]

\* The two lines printed before the loop.  The first interpolates
\* str(value); it is kept as the value itself.
Header(value, from_unit) ==
    <<[kind |-> "header", value |-> value, unit |-> from_unit], [kind |-> "rule"]>>

\* The loop over the target units: its passes in order.
Loop(cls, conversion_type, value, from_unit) ==
    LET target_units == primary_units[conversion_type]
    IN  [i \in 1..Len(target_units) |->
           LoopPass(cls, conversion_type, value, from_unit, target_units[i])]

\* The lines the passes print.
RowLines(passes) ==
    With(SelectSeq(passes, LAMBDA p : p.step = "row"),
         LAMBDA rows : [i \in 1..Len(rows) |-> RowLine(rows[i])])

\* show_all_conversions with the header printed before from_unit is looked up.
show_all_conversions_HeaderFirst(cls, conversion_type, value, from_unit_arg) ==
    LET from_unit == Lower[from_unit_arg]
    IN  IF conversion_type \notin DOMAIN unit_maps
        THEN [out |-> <<>>, passes |-> <<>>,
              outcome |-> Raise("Unknown conversion type: " \o conversion_type)]
        ELSE IF from_unit \notin DOMAIN cls[unit_maps[conversion_type]]
        THEN [out |-> Header(value, from_unit), passes |-> <<>>,
              outcome |-> Raise("Unknown " \o conversion_type \o " unit: " \o from_unit)]
        ELSE With(Loop(cls, conversion_type, value, from_unit),
                  LAMBDA passes :
                     [out |-> Header(value, from_unit) \o RowLines(passes),
                      passes |-> passes,
                      outcome |-> Return(None)])

\* What show_all_conversions does: `out` the lines printed, `passes` the
\* passes of its loop, `outcome` its return or the ValueError raised.
show_all_conversions(cls, conversion_type, value, from_unit_arg) ==
    LET from_unit == Lower[from_unit_arg]
    IN  IF conversion_type \notin DOMAIN unit_maps
        THEN [out |-> <<>>, passes |-> <<>>,
              outcome |-> Raise("Unknown conversion type: " \o conversion_type)]
        ELSE IF from_unit \notin DOMAIN cls[unit_maps[conversion_type]]
        THEN [out |-> <<>>, passes |-> <<>>,
              outcome |-> Raise("Unknown " \o conversion_type \o " unit: " \o from_unit)]
        ELSE With(Loop(cls, conversion_type, value, from_unit),
                  LAMBDA passes :
                     [out |-> Header(value, from_unit) \o RowLines(passes),
                      passes |-> passes,
                      outcome |-> Return(None)])

(***************************************************************************)
(* main: sys.argv in, the lines printed and the exit status out.  The      *)
(* line of a specific conversion interpolates format(result, ".6g"); it is *)
(* kept as the result itself.  "--install" (install_service, which copies  *)
(* the script into a directory of the PATH) is not modelled, and no argv   *)
(* drawn here asks for it.                                                 *)
(***************************************************************************)
LegacyTypes == {"time", "t", "weight", "w", "length", "l", "baking", "b"}

ErrorLine(m) == [kind |-> "error", text |-> "Error: " \o m]

Exit(out, passes, status) == [out |-> out, passes |-> passes, status |-> status]

\* print(f"{value} {from_unit} = {result:.6g} {to_unit}"), or the except
\* ValueError clause of main when the conversion raised.
ReportConversion(conversion, value, from_unit, to_unit) ==
    With(conversion,
         LAMBDA c :
            IF c.kind = "raise" THEN Exit(<<ErrorLine(c.msg)>>, <<>>, 1)
            ELSE Exit(<<[kind |-> "result", value |-> value, from_unit |-> from_unit,
                         result |-> c.val, to_unit |-> to_unit]>>, <<>>, 0))

\* The table printed, then the except ValueError clause of main if it raised.
ReportTable(table) ==
    With(table,
         LAMBDA t :
            IF t.outcome.kind = "raise"
            THEN Exit(t.out \o <<ErrorLine(t.outcome.msg)>>, t.passes, 1)
            ELSE Exit(t.out, t.passes, 0))

FloatError(s) == ErrorLine("could not convert string to float: '" \o s \o "'")

\* "Legacy format: converter time 60 s [minutes]"
MainLegacy(cls, args) ==
    IF Len(args) < 3
    THEN Exit(<<[kind |-> "error",
                 text |-> "Error: Legacy format requires at least 3 arguments"]>>,
              <<>>, 1)
    ELSE LET conversion_type == args[1]
             from_unit == args[3]
             to_unit   == IF Len(args) > 3 THEN args[4] ELSE None
         IN  With(ParseFloat[args[2]],
                  LAMBDA value :
                     IF ~value.ok THEN Exit(<<FloatError(args[2])>>, <<>>, 1)
                     ELSE IF to_unit # None /\ to_unit # ""
                     THEN ReportConversion(
                              ConvertByType(cls, conversion_type, value.val,
                                            from_unit, to_unit),
                              value.val, from_unit, to_unit)
                     ELSE ReportTable(
                              show_all_conversions(cls, conversion_type, value.val,
                                                   from_unit)))

\* "Auto-detection format: converter 60 s [minutes]"
MainAuto(cls, args) ==
    IF Len(args) < 2
    THEN Exit(<<[kind |-> "error", text |-> "Error: Need at least value and unit"]>>,
              <<>>, 1)
    ELSE LET from_unit == args[2]
             to_unit   == IF Len(args) > 2 THEN args[3] ELSE None
             unit_type == detect_unit_type(cls, from_unit)
         IN  With(ParseFloat[args[1]],
                  LAMBDA value :
                     IF ~value.ok THEN Exit(<<FloatError(args[1])>>, <<>>, 1)
                     ELSE IF to_unit # None /\ to_unit # ""
                     THEN ReportConversion(
                              convert_auto(cls, value.val, from_unit, to_unit),
                              value.val, from_unit, to_unit)
                     ELSE IF unit_type = None
                     THEN Exit(<<ErrorLine("Unknown unit: " \o from_unit)>>, <<>>, 1)
                     ELSE ReportTable(
                              show_all_conversions(cls, unit_type, value.val,
                                                   from_unit)))

main(cls, argv) ==
    IF Len(argv) = 1 \/ (Len(argv) = 2 /\ argv[2] \in {"-h", "--help"})
    THEN Exit(<<[kind |-> "help"]>>, <<>>, 0)
    ELSE IF argv[2] \in LegacyTypes THEN MainLegacy(cls, Tail(argv))
    ELSE MainAuto(cls, Tail(argv))

(***************************************************************************)
(* The state: the class attributes, one call and what it did.              *)
(*   cls     Converter's class attributes (the four tables)                *)
(*   pc      "idle" before the call, "done" after it                       *)
(*   call    the call: the operation and its arguments                     *)
(*   ret     what the call returned or raised                              *)
(*   stdout  the lines printed                                             *)
(*   passes  the passes of show_all_conversions' loop over the targets     *)
(*   status  the exit status of the process (main), None otherwise         *)
(***************************************************************************)
VARIABLES cls, pc, call, ret, stdout, passes, status

vars == <<cls, pc, call, ret, stdout, passes, status>>

\* The inputs drawn.  Values are written as float(text) reads them.
ValueTexts == {"60", "1", "1.9", "-5", "0.5", "10"}

FloatOf == [text \in ValueTexts |-> Lit(text)]

\* Aliases of every table (some shared between tables), other spellings of
\* them, and a string no table holds.
SomeUnits ==
    {"s", "m", "min", "d", "g", "kg", "kilograms", "lb", "pounds",
     "meters", "km", "feet", "ml", "cups", "c", "KG", "xyz"}

AllAliases ==
    DOMAIN TIME_UNITS \cup DOMAIN WEIGHT_UNITS \cup DOMAIN LENGTH_UNITS
    \cup DOMAIN BAKING_UNITS

AllUnits == AllAliases \cup SomeUnits

TableTypes == DOMAIN unit_maps \cup {"volume", "Time"}

\* The values of the tables drawn: results in every format branch, results
\* of exactly 1.0, and negative results.
TableTexts == {"60", "1", "-5"}

\* The command lines drawn: the first MaxArgs arguments, or fewer, of a
\* legacy line (type value unit to_unit ...), of an auto-detection line
\* (value unit to_unit ...) or of a call for help.
MaxArgs == 4

MainTexts == {"60", "-5", "abc"}

MainUnits == {"d", "m", "KG", "xyz"}

MainTargets == {"s", "lb", "hours", ""}

CommandLines ==
    {<<type, text, from_unit, to_unit, "extra">> :
        type \in {"time", "w", "l", "baking"}, text \in MainTexts,
        from_unit \in MainUnits, to_unit \in MainTargets}
    \cup {<<text, from_unit, to_unit, "extra", "extra">> :
        text \in MainTexts, from_unit \in MainUnits, to_unit \in MainTargets}
    \cup {<<help, "60", "s", "m", "extra">> : help \in {"-h", "--help"}}

Argvs ==
    {<<"converter.py">> \o SubSeq(line, 1, n) :
        line \in CommandLines, n \in 0..(IF MaxArgs < 5 THEN MaxArgs ELSE 5)}

NoCall ==
    [op |-> None, type |-> None, text |-> None, value |-> FZero(0),
     from_unit |-> None, to_unit |-> None, argv |-> <<>>]

ConvertCalls(op) ==
    {[NoCall EXCEPT !.op = op, !.text = text, !.value = FloatOf[text],
                    !.from_unit = from_unit, !.to_unit = to_unit] :
        text \in ValueTexts, from_unit \in SomeUnits, to_unit \in SomeUnits}

ConverterCalls ==
    ConvertCalls("convert_time") \cup ConvertCalls("convert_weight")
    \cup ConvertCalls("convert_length") \cup ConvertCalls("convert_baking")

DetectCalls ==
    {[NoCall EXCEPT !.op = "detect_unit_type", !.from_unit = unit] : unit \in AllUnits}

AutoCalls == DetectCalls \cup ConvertCalls("convert_auto")

TableCalls ==
    {[NoCall EXCEPT !.op = "show_all_conversions", !.type = type, !.text = text,
                    !.value = FloatOf[text], !.from_unit = from_unit] :
        type \in TableTypes, text \in TableTexts, from_unit \in AllUnits}

MainCalls == {[NoCall EXCEPT !.op = "main", !.argv = argv] : argv \in Argvs}

\* The process before the call in `calls` it is to make.
InitWith(calls) ==
    /\ cls = [TIME_UNITS |-> TIME_UNITS, WEIGHT_UNITS |-> WEIGHT_UNITS,
              LENGTH_UNITS |-> LENGTH_UNITS, BAKING_UNITS |-> BAKING_UNITS]
    /\ pc = "idle"
    /\ call \in calls
    /\ ret = Return(None)
    /\ stdout = <<>>
    /\ passes = <<>>
    /\ status = None

\* The call returns or raises; nothing is printed.
Returns(op, r) ==
    /\ pc = "idle"
    /\ call.op = op
    /\ pc' = "done"
    /\ ret' = r
    /\ UNCHANGED <<cls, call, stdout, passes, status>>

ConvertTime ==
    Returns("convert_time",
            convert_time(cls, call.value, call.from_unit, call.to_unit))

ConvertWeight ==
    Returns("convert_weight",
            convert_weight(cls, call.value, call.from_unit, call.to_unit))

ConvertLength ==
    Returns("convert_length",
            convert_length(cls, call.value, call.from_unit, call.to_unit))

ConvertBaking ==
    Returns("convert_baking",
            convert_baking(cls, call.value, call.from_unit, call.to_unit))

DetectUnitType ==
    Returns("detect_unit_type", Return(detect_unit_type(cls, call.from_unit)))

ConvertAuto ==
    Returns("convert_auto",
            convert_auto(cls, call.value, call.from_unit, call.to_unit))

ShowAllConversions ==
    /\ pc = "idle"
    /\ call.op = "show_all_conversions"
    /\ \E t \in {show_all_conversions(cls, call.type, call.value, call.from_unit)} :
          /\ ret' = t.outcome
          /\ stdout' = t.out
          /\ passes' = t.passes
    /\ pc' = "done"
    /\ UNCHANGED <<cls, call, status>>

Main ==
    /\ pc = "idle"
    /\ call.op = "main"
    /\ \E m \in {main(cls, call.argv)} :
          /\ stdout' = m.out
          /\ passes' = m.passes
          /\ status' = m.status
    /\ pc' = "done"
    /\ UNCHANGED <<cls, call, ret>>

Next ==
    \/ ConvertTime
    \/ ConvertWeight
    \/ ConvertLength
    \/ ConvertBaking
    \/ DetectUnitType
    \/ ConvertAuto
    \/ ShowAllConversions
    \/ Main

Init == InitWith(ConverterCalls \cup AutoCalls \cup TableCalls \cup MainCalls)

Spec == Init /\ [][Next]_vars

\* The four converters.
InitConvert == InitWith(ConverterCalls)

NextConvert == ConvertTime \/ ConvertWeight \/ ConvertLength \/ ConvertBaking

SpecConvert == InitConvert /\ [][NextConvert]_vars

\* Detection and the conversion that rests on it.
InitAuto == InitWith(AutoCalls)

NextAuto == DetectUnitType \/ ConvertAuto

SpecAuto == InitAuto /\ [][NextAuto]_vars

\* The table.
InitTable == InitWith(TableCalls)

SpecTable == InitTable /\ [][ShowAllConversions]_vars

\* The command line.
InitMain == InitWith(MainCalls)

SpecMain == InitMain /\ [][Main]_vars

\* The table, called directly and through the command line.
InitTableMode == InitWith(TableCalls \cup MainCalls)

NextTableMode == ShowAllConversions \/ Main

SpecTableMode == InitTableMode /\ [][NextTableMode]_vars

(***************************************************************************)
(* The claims.  Each is stated of the call made and of what it left        *)
(* behind: ret, stdout, passes and status once pc is "done".               *)
(***************************************************************************)
Done(op) == pc = "done" /\ call.op = op

\* The domains in detect_unit_type's order, and the table and the converter
\* of each.
Domains == <<"time", "weight", "length", "baking">>

TableOf ==
    [time |-> TIME_UNITS, weight |-> WEIGHT_UNITS, length |-> LENGTH_UNITS,
     baking |-> BAKING_UNITS]

DomainOfOp ==
    [convert_time |-> "time", convert_weight |-> "weight",
     convert_length |-> "length", convert_baking |-> "baking"]

\* The domains whose table holds the alias u.
Holding(u) == {D \in DOMAIN TableOf : u \in DOMAIN TableOf[D]}

\* The first domain, in the order of Domains, whose table holds u.
FirstHolding(u) ==
    Domains[CHOOSE i \in 1..Len(Domains) :
               /\ Domains[i] \in Holding(u)
               /\ \A j \in 1..(i - 1) : Domains[j] \notin Holding(u)]

StartsWith(s, prefix) ==
    Len(s) >= Len(prefix) /\ SubSeq(s, 1, Len(prefix)) = prefix

\* The call returned v; the call did what the outcome x says.
Returned(v) == ret.kind = "return" /\ ret.val = v

Outcome(x) ==
    /\ ret.kind = x.kind
    /\ ret.msg = x.msg
    /\ x.kind = "return" => ret.val = x.val

HasKind(lines, kind) == \E i \in DOMAIN lines : lines[i].kind = kind

\* |x|
Abs(x) == [x EXCEPT !.sign = 0]

\* Whether r and v, of one sign, lie within k units in the last place of v.
WithinUlps(r, v, k) ==
    IF v.man = <<>> \/ r.man = <<>> THEN v.man = r.man
    ELSE /\ r.sign = v.sign
         /\ LET low == IF r.exp < v.exp THEN r.exp ELSE v.exp
                R   == BShl[r.man, r.exp - low]
                V   == BShl[v.man, v.exp - low]
                gap == IF BCmp[R, V] >= 0 THEN BSub[R, V] ELSE BSub[V, R]
            IN  BCmp[gap, BShl[BFromInt[k], v.exp - low]] <= 0

\* C1 (as claimed): for two aliases that one domain's table holds both,
\* convert_auto returns what that domain's converter returns, also when an
\* alias is in several tables ("m" with a length unit); for two aliases that
\* no one table holds both, it fails with the cross-domain error.
C1_AutoEqualsDomainConvert ==
    Done("convert_auto") =>
        LET a    == Lower[call.from_unit]
            b    == Lower[call.to_unit]
            both == Holding(a) \cap Holding(b)
        IN  /\ \A D \in both : Outcome(ConvertIn(TableOf[D], D, call.value, a, b))
            /\ (both = {} /\ Holding(a) # {} /\ Holding(b) # {}) =>
                  (ret.kind = "raise" /\ StartsWith(ret.msg, "Cannot convert between "))

\* C3: detect_unit_type returns the first domain, in the order time, weight,
\* length, baking, whose table holds the lower-cased unit, and None exactly
\* when no table holds it; "m", in the time and the length table, is time.
C3_DetectByPriority ==
    Done("detect_unit_type") =>
        LET u == Lower[call.from_unit]
        IN  /\ (Holding(u) = {}) <=> (ret.val = None)
            /\ Holding(u) # {} => ret.val = FirstHolding(u)
            /\ u = "m" => (Holding(u) = {"time", "length"} /\ ret.val = "time")

\* A unit written in upper case is detected by its lower-cased spelling.
C3_UpperCaseDetected ==
    /\ Done("detect_unit_type")
    /\ call.from_unit = "KG"
    /\ ret.val = "weight"

\* C4 (as claimed): an alias that several tables hold is not given a meaning
\* by convert_auto: with a target unit that not all of those tables hold
\* ("m" to "s") the call fails instead of returning a number.
C4_SharedAliasNeedsDomain ==
    Done("convert_auto") =>
        LET a == Lower[call.from_unit]
            b == Lower[call.to_unit]
        IN  (Cardinality(Holding(a)) > 1 /\ Holding(b) # {}
             /\ ~(Holding(a) \subseteq Holding(b)))
            => ret.kind = "raise"

\* C4 (amended): convert_auto gives an alias that several tables hold the
\* meaning of the first table holding it: with a target unit of that table
\* it returns value * factor / factor of that table, so "m" is minutes and
\* 10 "m" to "s" is 600.0.
C4_SharedAliasResolvedByPriority ==
    Done("convert_auto") =>
        LET a == Lower[call.from_unit]
            b == Lower[call.to_unit]
        IN  (Cardinality(Holding(a)) > 1 /\ b \in DOMAIN TableOf[FirstHolding(a)]) =>
               /\ Returned(FDiv[FMul[call.value, TableOf[FirstHolding(a)][a]],
                                 TableOf[FirstHolding(a)][b]])
               /\ (call.text = "10" /\ a = "m" /\ b = "s") => Returned(Lit("600"))

C4_TenMinutesInSeconds ==
    /\ Done("convert_auto")
    /\ call.text = "10" /\ call.from_unit = "m" /\ call.to_unit = "s"
    /\ Returned(Lit("600"))

\* C5: a domain's converter raises the unknown-unit error, and returns no
\* number, when the lower-cased from_unit or to_unit is not in the domain's
\* table; otherwise it returns value * factor[from_unit] / factor[to_unit].
C5_ConvertOrUnknownUnit ==
    \A op \in DOMAIN DomainOfOp :
        Done(op) =>
            LET D == DomainOfOp[op]
                a == Lower[call.from_unit]
                b == Lower[call.to_unit]
            IN  IF a \notin DOMAIN TableOf[D] \/ b \notin DOMAIN TableOf[D]
                THEN /\ ret.kind = "raise"
                     /\ ret.val = None
                     /\ StartsWith(ret.msg, "Unknown " \o D \o " unit: ")
                ELSE Returned(FDiv[FMul[call.value, TableOf[D][a]], TableOf[D][b]])

C5_UnknownTargetRaised ==
    /\ Done("convert_baking")
    /\ call.from_unit = "ml" /\ call.to_unit = "xyz"
    /\ ret = Raise("Unknown baking unit: xyz")

\* C7 (as claimed): converting between two aliases of one unit (equal
\* factors) returns the value exactly.
C7_IdentityRoundTripExact ==
    \A op \in DOMAIN DomainOfOp :
        Done(op) =>
            LET T == TableOf[DomainOfOp[op]]
                a == Lower[call.from_unit]
                b == Lower[call.to_unit]
            IN  (a \in DOMAIN T /\ b \in DOMAIN T /\ T[a] = T[b]) =>
                   (ret.kind = "return" /\ FEq[ret.val, call.value])

\* C7 (amended): converting between two aliases of one unit returns the
\* value exactly when the unit's factor is 1, and otherwise the value times
\* the factor divided by the factor, each rounded: within 2 units in the
\* last place of the value.
C7_IdentityRoundTripRounded ==
    \A op \in DOMAIN DomainOfOp :
        Done(op) =>
            LET T == TableOf[DomainOfOp[op]]
                a == Lower[call.from_unit]
                b == Lower[call.to_unit]
            IN  (a \in DOMAIN T /\ b \in DOMAIN T /\ T[a] = T[b]) =>
                   /\ ret.kind = "return"
                   /\ T[a] = One => FEq[ret.val, call.value]
                   /\ WithinUlps(ret.val, call.value, 2)

C7_MetersUnchanged ==
    /\ Done("convert_length")
    /\ call.text = "1.9" /\ call.from_unit = "m" /\ call.to_unit = "meters"
    /\ Returned(call.value)

\* C2 (as claimed): the table of a valid from_unit has no row for the
\* primary unit with from_unit's factor (the same physical unit, whatever
\* its spelling) and a row for every other primary unit; the table of 60
\* "d" has an hours row "1,440" and no days row.
C2_NoRowForSamePhysicalUnit ==
    (Done("show_all_conversions") /\ ret.kind = "return") =>
        LET T == cls[unit_maps[call.type]]
            a == Lower[call.from_unit]
        IN  \A i \in DOMAIN passes :
               (passes[i].step = "row") <=> (T[passes[i].to_unit] # T[a])

\* C8 (as claimed): the format of a row goes by the magnitude |r| of the
\* result, so a negative result is formatted as its positive counterpart is.
C8_FormatByMagnitude ==
    Done("show_all_conversions") =>
        \A i \in DOMAIN passes :
           passes[i].step = "row" =>
              /\ passes[i].rule = FormatRule(Abs(passes[i].result))
              /\ passes[i].formatted_result
                    = (IF passes[i].result.sign = 1 /\ passes[i].result.man # <<>>
                       THEN "-" ELSE "")
                      \o FormatResult(Abs(passes[i].result))

\* The unit name of a result of exactly 1.0, as the claim has it.
Singular(to_unit) ==
    IF to_unit \in {"cups", "inches", "ounces"} THEN to_unit
    ELSE IF to_unit = "feet" THEN "foot"
    ELSE IF EndsWith(to_unit, "s") THEN DropLast(to_unit)
    ELSE to_unit

\* C9: a row shows the primary unit's name unless the result is exactly
\* 1.0; then a name ending in "s" loses the "s", but "cups", "inches" and
\* "ounces" stay, "feet" becomes "foot", and any other name stays.
C9_SingularOnlyForOne ==
    Done("show_all_conversions") =>
        /\ \A i \in DOMAIN passes :
              passes[i].step = "row" =>
                 /\ passes[i].display_unit # passes[i].to_unit
                       => FEq[passes[i].result, OnePointZero]
                 /\ FEq[passes[i].result, OnePointZero]
                       => passes[i].display_unit = Singular(passes[i].to_unit)
                 /\ ~FEq[passes[i].result, OnePointZero]
                       => passes[i].display_unit = passes[i].to_unit
        /\ \A k \in 3..Len(stdout) :
              \E i \in DOMAIN passes :
                 /\ passes[i].step = "row"
                 /\ stdout[k].text
                       = "  " \o passes[i].formatted_result \o " " \o passes[i].display_unit

C9_OneFoot ==
    /\ Done("show_all_conversions")
    /\ \E i \in DOMAIN passes :
          /\ passes[i].step = "row"
          /\ passes[i].to_unit = "feet" /\ passes[i].display_unit = "foot"
    /\ \E k \in DOMAIN stdout : stdout[k] = [kind |-> "row", text |-> "  1 foot"]

\* C10: every name of a primary list is a key of its domain's table, so no
\* pass of the loop ends in the except clause and every pass of a table
\* either skips its unit or prints its row; no operation changes the tables.
C10_PrimaryUnitsAreKeys ==
    /\ \A key \in DOMAIN unit_maps :
          /\ key \in DOMAIN primary_units
          /\ \A i \in DOMAIN primary_units[key] :
                primary_units[key][i] \in DOMAIN cls[unit_maps[key]]
    /\ \A i \in DOMAIN passes : passes[i].step \in {"skip", "row"}
    /\ (Done("show_all_conversions") /\ ret.kind = "return") =>
          /\ Len(passes) = Len(primary_units[call.type])
          /\ Len(stdout) = 2 + Cardinality({i \in DOMAIN passes : passes[i].step = "row"})
    /\ cls = [TIME_UNITS |-> TIME_UNITS, WEIGHT_UNITS |-> WEIGHT_UNITS,
              LENGTH_UNITS |-> LENGTH_UNITS, BAKING_UNITS |-> BAKING_UNITS]

C10_EveryBakingTargetConverted ==
    /\ Done("show_all_conversions")
    /\ call.type = "b" /\ call.from_unit = "tsp"
    /\ Len(passes) = Len(BakingPrimary)
    /\ \A i \in DOMAIN passes : passes[i].step = "row"

\* The command line asks for a table: its arguments after the program's
\* name, the unit it names and the domain main looks the unit up in.
TableModeArgs ==
    LET args == Tail(call.argv)
    IN  IF Len(args) >= 1 /\ args[1] \in LegacyTypes
        THEN [table |-> Len(args) >= 3 /\ ParseFloat[args[2]].ok
                        /\ (Len(args) = 3 \/ args[4] = ""),
              unit  |-> IF Len(args) >= 3 THEN Lower[args[3]] ELSE "",
              holds |-> Len(args) >= 3
                        /\ Lower[args[3]] \in DOMAIN cls[unit_maps[args[1]]]]
        ELSE [table |-> Len(args) >= 2 /\ ParseFloat[args[1]].ok
                        /\ (Len(args) = 2 \/ args[3] = ""),
              unit  |-> IF Len(args) >= 2 THEN Lower[args[2]] ELSE "",
              holds |-> Len(args) >= 2 /\ Holding(Lower[args[2]]) # {}]

\* C6: show_all_conversions raises before it prints anything when the
\* conversion type is unknown or the type's table lacks from_unit, and once
\* it has printed the header it returns; main, asked for a table that
\* fails, prints the error alone and exits with status 1.
C6_NoPartialTable ==
    /\ Done("show_all_conversions") =>
          /\ (call.type \notin DOMAIN unit_maps
              \/ Lower[call.from_unit] \notin DOMAIN cls[unit_maps[call.type]])
                => (ret.kind = "raise" /\ stdout = <<>>)
          /\ stdout # <<>> => (ret.kind = "return" /\ stdout[1].kind = "header")
    /\ Done("main") =>
          /\ HasKind(stdout, "header") => (status = 0 /\ ~HasKind(stdout, "error"))
          /\ HasKind(stdout, "error") => (status = 1 /\ Len(stdout) = 1)
          /\ (TableModeArgs.table /\ ~TableModeArgs.holds) =>
                /\ status = 1
                /\ Len(stdout) = 1
                /\ stdout[1].kind = "error"
                /\ StartsWith(stdout[1].text, "Error: Unknown ")
          /\ (TableModeArgs.table /\ TableModeArgs.holds) =>
                (status = 0 /\ stdout[1].kind = "header")

C6_UnknownUnitReported ==
    /\ Done("main")
    /\ call.argv = <<"converter.py", "time", "60", "xyz">>
    /\ stdout = <<[kind |-> "error", text |-> "Error: Unknown time unit: xyz"]>>
    /\ status = 1

====
